---------------------------- MODULE Spec2Model ----------------------------
(***************************************************************************)
(* Model of two constraint builders of MATCH-model (a Switch derivative):  *)
(*                                                                         *)
(*   switch_model/balancing/demand_response/simple.py   (demand shift)     *)
(*   switch_model/generators/core/no_commit.py          (dispatch limits)  *)
(*                                                                         *)
(* Each builder is followed through the pipeline Switch runs it in:        *)
(* define_components, load_inputs, construction of the model instance      *)
(* (where Pyomo validates parameters and evaluates the rules), and the     *)
(* solve, which returns an assignment satisfying what was built.           *)
(*                                                                         *)
(* Quantities are integers.  Linear constraints are kept as data, so that  *)
(* what a rule built can be inspected and evaluated on an assignment.      *)
(***************************************************************************)
EXTENDS Integers, Sequences, FiniteSets, TLC

(***************************************************************************)
(* Bounds of the model.                                                    *)
(***************************************************************************)
\* number of timepoints of the study
NumTps == 3
\* number of days of the model's year (the code's year has 365)
NumDays == 2

(***************************************************************************)
(* Index sets supplied by the modules this code depends on.                *)
(***************************************************************************)
TIMEPOINTS == 1 .. NumTps
\* TIMEPOINTS is an ordered set: its members in order
TIMEPOINTS_ordered == [i \in 1 .. NumTps |-> i]
LOAD_ZONES == {"z1", "z2"}
ZONE_TIMEPOINTS == LOAD_ZONES \X TIMEPOINTS

\* float('inf'): a value above every finite quantity of the model
Infinity == 1000
IsInf(x) == x = Infinity

(***************************************************************************)
(* Linear expressions and constraints as data.                             *)
(* A linear expression is [coef |-> function from variable keys to         *)
(* integers, const |-> integer]; a variable key is <<name, i, j>>.         *)
(* A rule result is a relational expression [kind |-> "eq" or "le",        *)
(* lhs, rhs] or, when Python evaluated the comparison on plain numbers,    *)
(* the Boolean it gave: [kind |-> "bool", value |-> ...].                  *)
(***************************************************************************)
RECURSIVE SumOver(_, _)
SumOver(S, f) ==
    IF S = {} THEN 0
    ELSE LET x == CHOOSE y \in S : TRUE
         IN  f[x] + SumOver(S \ {x}, f)

Range(s) == {s[i] : i \in DOMAIN s}

NoTerms == [k \in {} |-> 0]

\* a Python number (native), a Pyomo variable, and the value an Expression
\* component holds (a Pyomo object even when it holds a plain number)
Const(c) == [coef |-> NoTerms, const |-> c, native |-> TRUE, raised |-> FALSE]
VarTerm(k) ==
    [coef |-> [x \in {k} |-> 1], const |-> 0, native |-> FALSE, raised |-> FALSE]
ExpressionOf(e) == [e EXCEPT !.native = FALSE]

\* component[key]: a key outside the component's index raises KeyError
KeyError == [coef |-> NoTerms, const |-> 0, native |-> FALSE, raised |-> TRUE]
Lookup(component, key) ==
    IF key \in DOMAIN component THEN component[key] ELSE KeyError

CoefOf(e, k) == IF k \in DOMAIN e.coef THEN e.coef[k] ELSE 0

\* e1 + e2 and e1 - e2
LinAdd(e1, e2) ==
    [coef |-> [k \in DOMAIN e1.coef \cup DOMAIN e2.coef |->
                   CoefOf(e1, k) + CoefOf(e2, k)],
     const |-> e1.const + e2.const,
     native |-> e1.native /\ e2.native,
     raised |-> e1.raised \/ e2.raised]
LinSub(e1, e2) ==
    [coef |-> [k \in DOMAIN e1.coef \cup DOMAIN e2.coef |->
                   CoefOf(e1, k) - CoefOf(e2, k)],
     const |-> e1.const - e2.const,
     native |-> e1.native /\ e2.native,
     raised |-> e1.raised \/ e2.raised]
\* e * c for a number c
LinScale(e, c) ==
    [coef |-> [k \in DOMAIN e.coef |-> e.coef[k] * c],
     const |-> e.const * c,
     native |-> e.native,
     raised |-> e.raised]

\* Python's sum(...) over a sequence of expressions, starting from the number 0
RECURSIVE LinSum(_)
LinSum(es) ==
    IF es = <<>> THEN Const(0)
    ELSE LinAdd(LinSum(SubSeq(es, 1, Len(es) - 1)), es[Len(es)])

\* the members of a set of integers in increasing order
RECURSIVE Sorted(_)
Sorted(S) ==
    IF S = {} THEN <<>>
    ELSE LET x == CHOOSE y \in S : \A z \in S : y <= z
         IN  <<x>> \o Sorted(S \ {x})

\* the value of a linear expression under an assignment of its variables
Eval(e, val) ==
    e.const + SumOver(DOMAIN e.coef, [k \in DOMAIN e.coef |-> e.coef[k] * val[k]])

\* lhs == rhs and lhs <= rhs as Python and Pyomo evaluate them: a raised
\* error propagates, two Python numbers give a Python Boolean, anything else
\* a relational expression
RelEq(l, r) ==
    IF l.raised \/ r.raised THEN [kind |-> "raise"]
    ELSE IF l.native /\ r.native
    THEN [kind |-> "bool", value |-> (l.const = r.const)]
    ELSE [kind |-> "eq", lhs |-> l, rhs |-> r]
RelLe(l, r) ==
    IF l.raised \/ r.raised THEN [kind |-> "raise"]
    ELSE IF l.native /\ r.native
    THEN [kind |-> "bool", value |-> (l.const <= r.const)]
    ELSE [kind |-> "le", lhs |-> l, rhs |-> r]

\* Constraint.Skip
Skip == [kind |-> "skip"]

\* Pyomo accepts a relational expression or Constraint.Skip from a rule; a
\* plain Boolean is a ValueError and a raised error propagates
RuleResultRejected(c) == c.kind \in {"bool", "raise"}

\* the constraints a component holds: the skipped indices hold none
Kept(results) ==
    [k \in {x \in DOMAIN results : results[x].kind # "skip"} |-> results[k]]

\* whether an assignment satisfies a built constraint
Satisfies(c, val) ==
    CASE c.kind = "eq" -> Eval(c.lhs, val) = Eval(c.rhs, val)
      [] c.kind = "le" -> Eval(c.lhs, val) <= Eval(c.rhs, val)

ConstraintVars(c) == DOMAIN c.lhs.coef \cup DOMAIN c.rhs.coef

\* a set as a sequence, in some fixed order
RECURSIVE SetToSeq(_)
SetToSeq(S) ==
    IF S = {} THEN <<>>
    ELSE LET x == CHOOSE y \in S : TRUE
         IN  <<x>> \o SetToSeq(S \ {x})

\* sum(...) over the members of a set S of the expressions f[x]
LinSumOverSet(S, f) == LinSum([i \in 1 .. Cardinality(S) |-> f[SetToSeq(S)[i]]])

\* The assignments of the keys ks[i..], each key k taking a value of cand[k],
\* that extend a member of partials and satisfy every constraint of cons:
\* keys are assigned in the order of ks and a partial assignment is dropped
\* as soon as a constraint over assigned keys fails.
RECURSIVE Solutions(_, _, _, _, _)
Solutions(ks, i, partials, cand, cons) ==
    IF i > Len(ks) THEN partials
    ELSE LET k == ks[i]
             now == {ks[j] : j \in 1 .. i}
             ready == {c \in cons : k \in ConstraintVars(c)
                                     /\ ConstraintVars(c) \subseteq now}
             ext == {[x \in now |-> IF x = k THEN v ELSE f[x]] :
                         v \in cand[k], f \in partials}
         IN  Solutions(ks, i + 1,
                       {g \in ext : \A c \in ready : Satisfies(c, g)},
                       cand, cons)
\* the solutions over the keys ks: a constraint without variables must hold
\* as it stands
Solve(ks, cand, cons) ==
    IF \A c \in cons : ConstraintVars(c) = {} => Satisfies(c, NoTerms)
    THEN Solutions(ks, 1, {NoTerms}, cand, cons)
    ELSE {}

(***************************************************************************)
(* State.                                                                  *)
(***************************************************************************)
VARIABLES
    pc,                             \* position in the pipeline
    error,                          \* the component whose construction failed, or "none"
    has_local_td,                   \* whether local_td gave the model Distributed_Power_Withdrawals
    Distributed_Power_Withdrawals,  \* accumulator of local_td (unused when absent)
    Zone_Power_Withdrawals,         \* accumulator of load_zones
    zone_demand_mw,                 \* parameter of load_zones
    inputs_dir,                     \* the files of the inputs directory
    switch_data,                    \* the data portal filled by load_inputs
    tp_day,                         \* constructed components of the demand-shift builder
    TPS_IN_DAYS,
    dr_shift_down_limit,
    dr_shift_up_limit,
    ShiftDemand_bounds,
    DR_Shift_Net_Zero,
    ShiftDemand,                    \* the solver's values of the ShiftDemand variables
    Cost_Components_Per_TP,         \* accumulator of financials
    gen_info,                       \* generation_projects_info: one record per project
    tp_period,                      \* period of each timepoint
    PERIODS_FOR_GEN,                \* periods in which each project is operational
    instance,                       \* constructed components of the dispatch builder
    solution                        \* the solver's values of the dispatch variables

drVars == <<pc, error, has_local_td, Distributed_Power_Withdrawals,
            Zone_Power_Withdrawals, zone_demand_mw, inputs_dir, switch_data,
            tp_day, TPS_IN_DAYS, dr_shift_down_limit, dr_shift_up_limit,
            ShiftDemand_bounds, DR_Shift_Net_Zero, ShiftDemand>>

drData == <<has_local_td, Distributed_Power_Withdrawals,
            Zone_Power_Withdrawals, zone_demand_mw, inputs_dir, switch_data,
            tp_day, TPS_IN_DAYS, dr_shift_down_limit, dr_shift_up_limit,
            ShiftDemand_bounds, DR_Shift_Net_Zero, ShiftDemand>>

ncVars == <<Cost_Components_Per_TP, gen_info, tp_period, PERIODS_FOR_GEN,
            instance, solution>>

vars == <<drVars, ncVars>>

\* a component that has not been constructed holds nothing
Unbuilt == <<>>

(***************************************************************************)
(* Demand-shift builder: switch_model/balancing/demand_response/simple.py  *)
(***************************************************************************)
DAYS == 1 .. NumDays

\* a variant that checks the labels against the first day only
tp_day_within_no_last_day(data) == \A t \in DOMAIN data : data[t] >= 1

\* Param(mod.TIMEPOINTS, within=mod.DAYS): every loaded value must be a day
tp_day_within(data) == \A t \in DOMAIN data : data[t] \in DAYS

\* m.tp_day[t] has no default: reading a timepoint without a row fails
tp_day_defined(data) == \A t \in TIMEPOINTS : t \in DOMAIN data

\* a variant that gathers the timepoints of day d and of the days before it
TPS_IN_DAYS_init_up_to_day(tpd, d) ==
    SelectSeq(TIMEPOINTS_ordered, LAMBDA t : tpd[t] <= d)

\* [t for t in m.TIMEPOINTS if m.tp_day[t] == d]
TPS_IN_DAYS_init(tpd, d) ==
    SelectSeq(TIMEPOINTS_ordered, LAMBDA t : tpd[t] = d)

dr_shift_down_limit_default == 0
dr_shift_up_limit_default == Infinity

\* within=NonNegativeReals
NonNegativeReals(value) == value >= 0

\* a variant: the validation written with a strict comparison
dr_shift_down_limit_validate_strict(value, z, t) == value < zone_demand_mw[<<z, t>>]

\* a variant: the down limit is loaded without validation
dr_shift_down_limit_validate_none(value, z, t) == TRUE

\* validate=lambda m, value, z, t: value <= m.zone_demand_mw[z, t]
dr_shift_down_limit_validate(value, z, t) == value <= zone_demand_mw[<<z, t>>]

\* every loaded value of dr_shift_down_limit passes its domain and its validation
dr_shift_down_limit_ok(data) ==
    \A k \in DOMAIN data :
        /\ NonNegativeReals(data[k])
        /\ dr_shift_down_limit_validate(data[k], k[1], k[2])

\* a variant without the domain of the up limit
dr_shift_up_limit_ok_any_real(data) == \A k \in DOMAIN data : TRUE

dr_shift_up_limit_ok(data) ==
    \A k \in DOMAIN data : NonNegativeReals(data[k])

\* a parameter's value: the loaded one, else the default
ParamValue(data, default, k) == IF k \in DOMAIN data THEN data[k] ELSE default

\* a variant: the two limits exchanged
ShiftDemand_bounds_rule_swapped(down, up, z, t) ==
    <<(-1) * up[<<z, t>>], down[<<z, t>>]>>

\* a variant that bounds the shift by the up limit in both directions
ShiftDemand_bounds_rule_symmetric(down, up, z, t) ==
    <<(-1) * up[<<z, t>>], up[<<z, t>>]>>

\* bounds=lambda m, z, t: ((-1.0) * m.dr_shift_down_limit[z, t], m.dr_shift_up_limit[z,t])
ShiftDemand_bounds_rule(down, up, z, t) ==
    <<(-1) * down[<<z, t>>], up[<<z, t>>]>>

\* a variant: the balance taken over the whole study instead of over day d
DR_Shift_Net_Zero_rule_all_timepoints(tps_in_days, z, d) ==
    RelEq(LinSum([i \in 1 .. NumTps |->
                     VarTerm(<<"ShiftDemand", z, TIMEPOINTS_ordered[i]>>)]),
          Const(0))

\* a variant that balances the shifts of all zones together within day d
DR_Shift_Net_Zero_rule_all_zones(tps_in_days, z, d) ==
    RelEq(LinSum([i \in 1 .. Len(tps_in_days[d]) * 2 |->
                     VarTerm(<<"ShiftDemand",
                               IF i <= Len(tps_in_days[d]) THEN "z1" ELSE "z2",
                               tps_in_days[d][((i - 1) % Len(tps_in_days[d])) + 1]>>)]),
          Const(0))

\* sum(m.ShiftDemand[z, t] for t in m.TPS_IN_DAYS[d]) == 0.0
DR_Shift_Net_Zero_rule(tps_in_days, z, d) ==
    RelEq(LinSum([i \in 1 .. Len(tps_in_days[d]) |->
                     VarTerm(<<"ShiftDemand", z, tps_in_days[d][i]>>)]),
          Const(0))

(***************************************************************************)
(* Input files.  days.csv gives a day label per timepoint; dr_data.csv is  *)
(* optional and gives shift limits for some (zone, timepoint) rows.        *)
(***************************************************************************)
NoFile == [present |-> FALSE, rows |-> <<>>]
File(rows) == [present |-> TRUE, rows |-> rows]

DayLabels == 0 .. NumDays + 1
DaysFiles ==
    {NoFile}
    \cup {File(f) : f \in [TIMEPOINTS -> DayLabels]}
    \cup {File([t \in TIMEPOINTS \ {u} |-> f[t]]) :
              f \in [TIMEPOINTS -> DAYS], u \in TIMEPOINTS}

DownValues == {-1, 0, 1, 2}
UpValues == {-1, 0, 1, Infinity}
DrRows == [dr_shift_down_limit : DownValues, dr_shift_up_limit : UpValues]
\* no file, one row only, or the same row for every zone and timepoint
DrDataFiles ==
    {NoFile}
    \cup {File([k \in {k0} |-> r]) : k0 \in ZONE_TIMEPOINTS, r \in DrRows}
    \cup {File([k \in ZONE_TIMEPOINTS |-> r]) : r \in DrRows}

DemandProfiles ==
    {[k \in ZONE_TIMEPOINTS |-> IF k[1] = "z1" THEN a ELSE 2] : a \in {0, 1, 2}}

\* the values a solution may take for one ShiftDemand variable
ShiftValues == {-1, 0, 1}

Column(file, name) == [k \in DOMAIN file.rows |-> file.rows[k][name]]

EmptyData == [tp_day |-> <<>>, dr_shift_down_limit |-> <<>>, dr_shift_up_limit |-> <<>>]

(***************************************************************************)
(* define_components of simple.py: declares the components and registers   *)
(* ShiftDemand as a withdrawal.                                            *)
(***************************************************************************)
\* a variant that registers with the zonal accumulator whatever the model has
define_components_zonal_only ==
    /\ UNCHANGED ncVars
    /\ pc = "start"
    /\ pc' = "defined"
    /\ Zone_Power_Withdrawals' = Append(Zone_Power_Withdrawals, "ShiftDemand")
    /\ UNCHANGED <<error, has_local_td, Distributed_Power_Withdrawals,
                   zone_demand_mw, inputs_dir, switch_data,
                   tp_day, TPS_IN_DAYS, dr_shift_down_limit, dr_shift_up_limit,
                   ShiftDemand_bounds, DR_Shift_Net_Zero, ShiftDemand>>

define_components ==
    /\ UNCHANGED ncVars
    /\ pc = "start"
    /\ pc' = "defined"
    /\ IF has_local_td
       THEN /\ Distributed_Power_Withdrawals' =
                   Append(Distributed_Power_Withdrawals, "ShiftDemand")
            /\ UNCHANGED Zone_Power_Withdrawals
       ELSE /\ Zone_Power_Withdrawals' =
                   Append(Zone_Power_Withdrawals, "ShiftDemand")
            /\ UNCHANGED Distributed_Power_Withdrawals
    /\ UNCHANGED <<error, has_local_td, zone_demand_mw, inputs_dir, switch_data,
                   tp_day, TPS_IN_DAYS, dr_shift_down_limit, dr_shift_up_limit,
                   ShiftDemand_bounds, DR_Shift_Net_Zero, ShiftDemand>>

(***************************************************************************)
(* load_inputs of simple.py: dr_data.csv is optional, days.csv is not.     *)
(***************************************************************************)
\* a variant: dr_data.csv loaded as a mandatory file
dr_data_required == FALSE

dr_data_optional == TRUE
days_optional == FALSE

\* load_aug: a missing file is skipped when optional and an error otherwise
load_aug_fails(file, optional) == ~file.present /\ ~optional

load_inputs ==
    /\ UNCHANGED ncVars
    /\ pc = "defined"
    /\ \E dr \in DrDataFiles, days \in DaysFiles :
        /\ inputs_dir' = [dr_data |-> dr, days |-> days]
        /\ IF load_aug_fails(dr, dr_data_optional)
           THEN /\ pc' = "aborted"
                /\ error' = "dr_data.csv"
                /\ UNCHANGED switch_data
           ELSE IF load_aug_fails(days, days_optional)
           THEN /\ pc' = "aborted"
                /\ error' = "days.csv"
                /\ UNCHANGED switch_data
           ELSE /\ pc' = "loaded"
                /\ UNCHANGED error
                /\ switch_data' =
                       [tp_day |-> days.rows,
                        dr_shift_down_limit |-> Column(dr, "dr_shift_down_limit"),
                        dr_shift_up_limit |-> Column(dr, "dr_shift_up_limit")]
    /\ UNCHANGED <<has_local_td, Distributed_Power_Withdrawals,
                   Zone_Power_Withdrawals, zone_demand_mw,
                   tp_day, TPS_IN_DAYS, dr_shift_down_limit, dr_shift_up_limit,
                   ShiftDemand_bounds, DR_Shift_Net_Zero, ShiftDemand>>

(***************************************************************************)
(* Construction of the model instance: Pyomo constructs the components in  *)
(* the order define_components declared them, validating each parameter    *)
(* and evaluating each rule.  The first failure raises, and no instance is *)
(* returned.  A constraint rule that returns a plain Boolean instead of a  *)
(* relational expression is rejected by Pyomo with a ValueError.           *)
(***************************************************************************)
DRComponentsUnbuilt ==
    /\ tp_day' = Unbuilt
    /\ TPS_IN_DAYS' = Unbuilt
    /\ dr_shift_down_limit' = Unbuilt
    /\ dr_shift_up_limit' = Unbuilt
    /\ ShiftDemand_bounds' = Unbuilt
    /\ DR_Shift_Net_Zero' = Unbuilt

ConstructionFails(component) ==
    /\ pc' = "aborted"
    /\ error' = component
    /\ DRComponentsUnbuilt

\* the first component of the demand-shift builder whose construction fails
DRFirstFailure(data) ==
    IF ~tp_day_within(data.tp_day) THEN "tp_day"
    ELSE IF ~tp_day_defined(data.tp_day) THEN "TPS_IN_DAYS"
    ELSE IF ~dr_shift_down_limit_ok(data.dr_shift_down_limit)
    THEN "dr_shift_down_limit"
    ELSE IF ~dr_shift_up_limit_ok(data.dr_shift_up_limit)
    THEN "dr_shift_up_limit"
    ELSE IF \E z \in LOAD_ZONES, d \in DAYS :
               RuleResultRejected(DR_Shift_Net_Zero_rule(
                   [e \in DAYS |-> TPS_IN_DAYS_init(data.tp_day, e)], z, d))
    THEN "DR_Shift_Net_Zero"
    ELSE "none"

create_instance ==
    /\ UNCHANGED ncVars
    /\ pc = "loaded"
    /\ LET failure == DRFirstFailure(switch_data)
           tps == [d \in DAYS |-> TPS_IN_DAYS_init(switch_data.tp_day, d)]
           down == [k \in ZONE_TIMEPOINTS |->
                       ParamValue(switch_data.dr_shift_down_limit,
                                  dr_shift_down_limit_default, k)]
           up == [k \in ZONE_TIMEPOINTS |->
                     ParamValue(switch_data.dr_shift_up_limit,
                                dr_shift_up_limit_default, k)]
       IN  IF failure # "none"
           THEN ConstructionFails(failure)
           ELSE /\ pc' = "constructed"
                /\ UNCHANGED error
                /\ tp_day' = switch_data.tp_day
                /\ TPS_IN_DAYS' = tps
                /\ dr_shift_down_limit' = down
                /\ dr_shift_up_limit' = up
                /\ ShiftDemand_bounds' =
                       [k \in ZONE_TIMEPOINTS |->
                           ShiftDemand_bounds_rule(down, up, k[1], k[2])]
                /\ DR_Shift_Net_Zero' =
                       Kept([k \in LOAD_ZONES \X DAYS |->
                                DR_Shift_Net_Zero_rule(tps, k[1], k[2])])
    /\ UNCHANGED <<has_local_td, Distributed_Power_Withdrawals,
                   Zone_Power_Withdrawals, zone_demand_mw, inputs_dir,
                   switch_data, ShiftDemand>>

(***************************************************************************)
(* The solve: the solver returns values of the variables that lie within   *)
(* the variables' bounds and satisfy every constraint built.               *)
(***************************************************************************)
\* a bound of +infinity is no bound
WithinBounds(v, b) == b[1] <= v /\ (IsInf(b[2]) \/ v <= b[2])

ShiftDemandKey(z, t) == <<"ShiftDemand", z, t>>
ShiftDemandKeys == {ShiftDemandKey(k[1], k[2]) : k \in ZONE_TIMEPOINTS}

solve ==
    /\ UNCHANGED ncVars
    /\ pc = "constructed"
    /\ \E val \in Solve(SetToSeq(ShiftDemandKeys),
                    [k \in ShiftDemandKeys |->
                        {v \in ShiftValues :
                            WithinBounds(v, ShiftDemand_bounds[<<k[2], k[3]>>])}],
                    Range(DR_Shift_Net_Zero)) :
        ShiftDemand' = [k \in ZONE_TIMEPOINTS |-> val[ShiftDemandKey(k[1], k[2])]]
    /\ pc' = "solved"
    /\ UNCHANGED <<error, has_local_td, Distributed_Power_Withdrawals,
                   Zone_Power_Withdrawals, zone_demand_mw, inputs_dir,
                   switch_data, tp_day, TPS_IN_DAYS, dr_shift_down_limit,
                   dr_shift_up_limit, ShiftDemand_bounds, DR_Shift_Net_Zero>>

(***************************************************************************)
(* The demand-shift pipeline.                                              *)
(***************************************************************************)
Init ==
    /\ pc = "start"
    /\ error = "none"
    /\ has_local_td \in BOOLEAN
    /\ Distributed_Power_Withdrawals =
           (IF has_local_td THEN <<"zone_demand_mw">> ELSE <<>>)
    /\ Zone_Power_Withdrawals =
           (IF has_local_td THEN <<"WithdrawFromCentralGrid">>
                            ELSE <<"zone_demand_mw">>)
    /\ zone_demand_mw \in DemandProfiles
    /\ inputs_dir = [dr_data |-> NoFile, days |-> NoFile]
    /\ switch_data = EmptyData
    /\ tp_day = Unbuilt
    /\ TPS_IN_DAYS = Unbuilt
    /\ dr_shift_down_limit = Unbuilt
    /\ dr_shift_up_limit = Unbuilt
    /\ ShiftDemand_bounds = Unbuilt
    /\ DR_Shift_Net_Zero = Unbuilt
    /\ ShiftDemand = Unbuilt
    /\ Cost_Components_Per_TP = <<>>
    /\ gen_info = <<>>
    /\ tp_period = <<>>
    /\ PERIODS_FOR_GEN = <<>>
    /\ instance = Unbuilt
    /\ solution = Unbuilt

Next ==
    \/ define_components
    \/ load_inputs
    \/ create_instance
    \/ solve

Spec == Init /\ [][Next]_vars

(***************************************************************************)
(* Dispatch-limit builder: switch_model/generators/core/no_commit.py       *)
(*                                                                         *)
(* Power is counted in hundredths of a MW, and gen_availability and        *)
(* gen_max_capacity_factor in percent, so that the products of the code    *)
(* are exact on integers.                                                  *)
(***************************************************************************)
Percent == 100
\* x * fraction, the fraction given in percent
TimesFraction(x, pct) == (x * pct) \div Percent
LinTimesFraction(e, pct) ==
    [coef |-> [k \in DOMAIN e.coef |-> TimesFraction(e.coef[k], pct)],
     const |-> TimesFraction(e.const, pct),
     native |-> e.native,
     raised |-> e.raised]

\* Sets and parameters of the modules the builder depends on (timescales,
\* load_zones, generators.core.build, generators.core.dispatch).
GENERATION_PROJECTS == {"g1", "g2"}
PERIODS == Range(tp_period)
TPS_IN_PERIOD(p) == Sorted({t \in TIMEPOINTS : tp_period[t] = p})
VARIABLE_GENS == {g \in GENERATION_PROJECTS : gen_info[g].gen_is_variable}
BASELOAD_GENS == {g \in GENERATION_PROJECTS : gen_info[g].gen_is_baseload}
STORAGE_GENS == {g \in GENERATION_PROJECTS : gen_info[g].gen_is_storage}
NON_STORAGE_GENS == GENERATION_PROJECTS \ STORAGE_GENS
FUELS_FOR_GEN(g) == gen_info[g].fuels
FUEL_BASED_GENS == {g \in GENERATION_PROJECTS : FUELS_FOR_GEN(g) # {}}
GENS_IN_ZONE(z) == {g \in GENERATION_PROJECTS : gen_info[g].gen_load_zone = z}
GENS_IN_PERIOD(p) == {g \in GENERATION_PROJECTS : p \in PERIODS_FOR_GEN[g]}
GEN_TPS ==
    {k \in GENERATION_PROJECTS \X TIMEPOINTS : tp_period[k[2]] \in PERIODS_FOR_GEN[k[1]]}
NON_STORAGE_GEN_TPS == {k \in GEN_TPS : k[1] \in NON_STORAGE_GENS}
FUEL_BASED_GEN_TPS == {k \in GEN_TPS : k[1] \in FUEL_BASED_GENS}
FUELS == {"gas", "oil"}
GEN_TP_FUELS ==
    {x \in GENERATION_PROJECTS \X TIMEPOINTS \X FUELS :
        <<x[1], x[2]>> \in FUEL_BASED_GEN_TPS /\ x[3] \in FUELS_FOR_GEN(x[1])}

\* GenCapacity[g, p]: an Expression over all projects and periods, holding
\* the capacity online in p (none outside the project's periods)
GenCapacity(g, p) ==
    ExpressionOf(Const(IF p \in PERIODS_FOR_GEN[g] THEN gen_info[g].capacity ELSE 0))
\* GenCapacityInTP[g, t]: an Expression over GEN_TPS
GenCapacityInTP(g, t) ==
    IF <<g, t>> \in GEN_TPS THEN GenCapacity(g, tp_period[t]) ELSE KeyError
gen_availability(g) == gen_info[g].gen_availability
\* gen_max_capacity_factor[g, t]: a parameter of the variable projects
gen_max_capacity_factor(g, t) ==
    gen_info[g].gen_max_capacity_factor[(t % 2) + 1]
gen_full_load_heat_rate(g) == gen_info[g].gen_full_load_heat_rate
ppa_energy_cost(g) == gen_info[g].ppa_energy_cost

\* the variables DispatchGen (over GEN_TPS), DispatchBaseloadByPeriod (over
\* BASELOAD_GEN_PERIODS) and GenFuelUseRate (over GEN_TP_FUELS)
DispatchGenKey(g, t) == <<"DispatchGen", g, t>>
DispatchGen(g, t) ==
    IF <<g, t>> \in GEN_TPS THEN VarTerm(DispatchGenKey(g, t)) ELSE KeyError
DispatchBaseloadByPeriodKey(g, p) == <<"DispatchBaseloadByPeriod", g, p>>
DispatchBaseloadByPeriod(index, g, p) ==
    IF <<g, p>> \in index THEN VarTerm(DispatchBaseloadByPeriodKey(g, p))
    ELSE KeyError
GenFuelUseRateKey(g, t, f) == <<"GenFuelUseRate", g, t, f>>
GenFuelUseRate(g, t, f) ==
    IF <<g, t, f>> \in GEN_TP_FUELS THEN VarTerm(GenFuelUseRateKey(g, t, f))
    ELSE KeyError

\* [(g, p) for g in m.BASELOAD_GENS for p in m.PERIODS_FOR_GEN[g]]
BASELOAD_GEN_PERIODS_rule ==
    {k \in GENERATION_PROJECTS \X PERIODS :
        k[1] \in BASELOAD_GENS /\ k[2] \in PERIODS_FOR_GEN[k[1]]}

\* a variant that takes only the first timepoint of each period
BASELOAD_GEN_TPS_rule_first_timepoint(baseload_gen_periods) ==
    {x \in GENERATION_PROJECTS \X TIMEPOINTS :
        /\ <<x[1], tp_period[x[2]]>> \in baseload_gen_periods
        /\ x[2] = TPS_IN_PERIOD(tp_period[x[2]])[1]}

\* [(g, t) for g, p in m.BASELOAD_GEN_PERIODS for t in m.TPS_IN_PERIOD[p]]
BASELOAD_GEN_TPS_rule(baseload_gen_periods) ==
    {x \in GENERATION_PROJECTS \X TIMEPOINTS :
        <<x[1], tp_period[x[2]]>> \in baseload_gen_periods}

\* m.DispatchGen[g, t] == m.DispatchBaseloadByPeriod[g, m.tp_period[t]]
Enforce_Dispatch_Baseload_Flat_rule(baseload_gen_periods, g, t) ==
    RelEq(DispatchGen(g, t),
          DispatchBaseloadByPeriod(baseload_gen_periods, g, tp_period[t]))

\* a variant that leaves the capacity factor out
DispatchUpperLimit_expr_no_capacity_factor(g, t) ==
    LinTimesFraction(GenCapacityInTP(g, t), gen_availability(g))

DispatchUpperLimit_expr(g, t) ==
    IF g \in VARIABLE_GENS
    THEN LinTimesFraction(
             LinTimesFraction(GenCapacityInTP(g, t), gen_availability(g)),
             gen_max_capacity_factor(g, t))
    ELSE LinTimesFraction(GenCapacityInTP(g, t), gen_availability(g))

\* a variant that limits the dispatch by the capacity instead
Enforce_Dispatch_Upper_Limit_rule_capacity(upper, g, t) ==
    RelLe(DispatchGen(g, t), GenCapacityInTP(g, t))

\* m.DispatchGen[g, t] <= m.DispatchUpperLimit[g, t]
Enforce_Dispatch_Upper_Limit_rule(upper, g, t) ==
    RelLe(DispatchGen(g, t), Lookup(upper, <<g, t>>))

\* a variant indexed by every project, storage included
Enforce_Dispatch_Upper_Limit_index_all_gens == GEN_TPS

\* a variant that leaves the baseload projects to their flat level alone
Enforce_Dispatch_Upper_Limit_index_no_baseload ==
    {k \in NON_STORAGE_GEN_TPS : k[1] \notin BASELOAD_GENS}

\* the index of Enforce_Dispatch_Upper_Limit
Enforce_Dispatch_Upper_Limit_index == NON_STORAGE_GEN_TPS

\* a variant that accounts the whole fuel use to one fuel of the project
GenFuelUseRate_Calculate_rule_one_fuel(g, t) ==
    RelEq(GenFuelUseRate(g, t, CHOOSE f \in FUELS_FOR_GEN(g) : TRUE),
          LinScale(DispatchGen(g, t), gen_full_load_heat_rate(g)))

\* sum(m.GenFuelUseRate[g, t, f] for f in m.FUELS_FOR_GEN[g])
\*     == m.DispatchGen[g, t] * m.gen_full_load_heat_rate[g]
GenFuelUseRate_Calculate_rule(g, t) ==
    RelEq(LinSumOverSet(FUELS_FOR_GEN(g),
                        [f \in FUELS_FOR_GEN(g) |-> GenFuelUseRate(g, t, f)]),
          LinScale(DispatchGen(g, t), gen_full_load_heat_rate(g)))

\* a variant without the test for a variable project
ExcessGen_rule_every_gen(upper, g, t) ==
    LinSub(Lookup(upper, <<g, t>>), DispatchGen(g, t))

\* m.DispatchUpperLimit[g, t] - m.DispatchGen[g, t] if g in m.VARIABLE_GENS else 0
ExcessGen_rule(upper, g, t) ==
    IF g \in VARIABLE_GENS
    THEN LinSub(Lookup(upper, <<g, t>>), DispatchGen(g, t))
    ELSE Const(0)

\* a variant that sums over the projects of every zone
ZoneTotalExcessGen_rule_every_zone(excess, z, t) ==
    LET gens == {g \in GENERATION_PROJECTS : <<g, t>> \in NON_STORAGE_GEN_TPS}
    IN  LinSumOverSet(gens, [g \in gens |-> Lookup(excess, <<g, t>>)])

\* sum(m.ExcessGen[g, t] for g in m.GENS_IN_ZONE[z] if (g, t) in m.NON_STORAGE_GEN_TPS)
ZoneTotalExcessGen_rule(excess, z, t) ==
    LET gens == {g \in GENS_IN_ZONE(z) : <<g, t>> \in NON_STORAGE_GEN_TPS}
    IN  LinSumOverSet(gens, [g \in gens |-> Lookup(excess, <<g, t>>)])

\* sum(m.ExcessGen[g, t] for t in m.TIMEPOINTS if m.tp_period[t] == p)
Calculate_Annual_Excess_Energy_By_Gen(excess, g, p) ==
    LET tps == {t \in TIMEPOINTS : tp_period[t] = p}
    IN  LinSum([i \in 1 .. Cardinality(tps) |->
                   Lookup(excess, <<g, Sorted(tps)[i]>>)])

\* a variant that leaves the price of the energy out
ExcessGenCostInTP_rule_unpriced(excess, t) ==
    LET gens == GENS_IN_PERIOD(tp_period[t]) \cap NON_STORAGE_GENS
    IN  LinSumOverSet(gens, [g \in gens |-> Lookup(excess, <<g, t>>)])

\* sum(m.ExcessGen[g, t] * m.ppa_energy_cost[g]
\*     for g in m.GENS_IN_PERIOD[m.tp_period[t]] if g in m.NON_STORAGE_GENS)
ExcessGenCostInTP_rule(excess, t) ==
    LET gens == GENS_IN_PERIOD(tp_period[t]) \cap NON_STORAGE_GENS
    IN  LinSumOverSet(gens,
            [g \in gens |-> LinScale(Lookup(excess, <<g, t>>), ppa_energy_cost(g))])

\* gen_excess_max[g]: default float("inf")
gen_excess_max(g) == gen_info[g].gen_excess_max

\* Constraint.Skip if m.gen_excess_max[g] == float("inf")
\* else (m.AnnualExcessGen[g,p] <= (m.gen_excess_max[g] * m.GenCapacity[g, p]))
max_AnnualExcessGen_rule(annual, g, p) ==
    IF IsInf(gen_excess_max(g)) THEN Skip
    ELSE RelLe(Lookup(annual, <<g, p>>),
               LinScale(GenCapacity(g, p), gen_excess_max(g)))

(***************************************************************************)
(* Inputs of the dispatch builder: the projects of the study, the periods  *)
(* of the timepoints and the periods in which each project operates.       *)
(***************************************************************************)
\* (technology, variable, baseload, storage, availability, capacity, capacity
\* factors, heat rate, fuels, energy cost, excess cap, zone)
Project(tech, var, base, stor, avail, cap, cf, rate, fuels, ppa, xmax, zone) ==
    [gen_tech |-> tech, gen_is_variable |-> var,
     gen_is_baseload |-> base, gen_is_storage |-> stor,
     gen_availability |-> avail, capacity |-> cap,
     gen_max_capacity_factor |-> cf, gen_full_load_heat_rate |-> rate,
     fuels |-> fuels, ppa_energy_cost |-> ppa, gen_excess_max |-> xmax,
     gen_load_zone |-> zone]

\* capacities of 50 MW and 100 MW, availabilities of 95% and 100%, capacity
\* factors of 40% and 100%
FirstProjects ==
    {Project("solar", TRUE, FALSE, FALSE, 100, 5000, <<40, 40>>, 0, {}, 30,
             Infinity, "z1"),
     Project("solar_capped", TRUE, FALSE, FALSE, 100, 5000, <<40, 40>>, 0, {},
             30, 1, "z1"),
     Project("wind", TRUE, FALSE, FALSE, 95, 10000, <<40, 100>>, 0, {}, 20,
             Infinity, "z2"),
     Project("geothermal", FALSE, TRUE, FALSE, 95, 10000, <<100, 100>>, 0, {},
             50, Infinity, "z1"),
     Project("hydro", TRUE, TRUE, FALSE, 95, 10000, <<40, 100>>, 0, {}, 20,
             Infinity, "z1"),
     Project("gas", FALSE, FALSE, FALSE, 95, 5000, <<100, 100>>, 10, {"gas"},
             0, Infinity, "z1"),
     Project("dual_fuel", FALSE, FALSE, FALSE, 95, 5000, <<100, 100>>, 10,
             {"gas", "oil"}, 0, Infinity, "z1"),
     Project("battery", FALSE, FALSE, TRUE, 100, 5000, <<100, 100>>, 0, {}, 0,
             Infinity, "z1"),
     Project("battery_capped", FALSE, FALSE, TRUE, 100, 5000, <<100, 100>>, 0,
             {}, 0, 1, "z1")}
SecondProjects ==
    {Project("solar", TRUE, FALSE, FALSE, 100, 5000, <<40, 40>>, 0, {}, 30,
             Infinity, "z1"),
     Project("geothermal", FALSE, TRUE, FALSE, 95, 10000, <<100, 100>>, 0, {},
             50, Infinity, "z2")}

\* the timepoints in order, those of period 1 before those of period 2
TpPeriodChoices ==
    {[t \in TIMEPOINTS |-> IF t <= split THEN 1 ELSE 2] : split \in 1 .. NumTps}

\* values a solution may take: 0, 12 and 95 MW for a dispatch, and one
\* negative level for the free variable DispatchBaseloadByPeriod
DispatchValues == {0, 1200, 9500}
BaseloadLevelValues == DispatchValues \cup {-1200}
FuelRateValues == {v * 10 : v \in DispatchValues}

(***************************************************************************)
(* define_components of no_commit.py: declares the components and adds     *)
(* ExcessGenCostInTP to the cost components of the objective.              *)
(***************************************************************************)
define_components_no_commit ==
    /\ UNCHANGED <<drData, error>>
    /\ pc = "start"
    /\ pc' = "defined"
    /\ Cost_Components_Per_TP' = Append(Cost_Components_Per_TP, "ExcessGenCostInTP")
    /\ UNCHANGED <<gen_info, tp_period, PERIODS_FOR_GEN, instance, solution>>

(***************************************************************************)
(* The inputs are loaded by the modules the builder depends on.            *)
(***************************************************************************)
load_generation_inputs ==
    /\ UNCHANGED <<drData, error>>
    /\ pc = "defined"
    /\ pc' = "loaded"
    /\ \E first \in FirstProjects, second \in SecondProjects :
        gen_info' = [g \in GENERATION_PROJECTS |->
                        IF g = "g1" THEN first ELSE second]
    /\ \E tpp \in TpPeriodChoices :
        /\ tp_period' = tpp
        /\ PERIODS_FOR_GEN' \in
               [GENERATION_PROJECTS -> (SUBSET Range(tpp)) \ {{}}]
    /\ UNCHANGED <<Cost_Components_Per_TP, instance, solution>>

(***************************************************************************)
(* Construction of the dispatch builder's components, in the order they    *)
(* are declared.  An Expression or Constraint whose rule raises (a lookup  *)
(* outside a component's index) fails the construction, as does a rule     *)
(* that returns a plain Boolean.                                           *)
(***************************************************************************)
ExpressionFails(component) == \E k \in DOMAIN component : component[k].raised
ConstraintFails(results) == \E k \in DOMAIN results : RuleResultRejected(results[k])

Built_BASELOAD_GEN_TPS == BASELOAD_GEN_TPS_rule(BASELOAD_GEN_PERIODS_rule)
Built_Enforce_Dispatch_Baseload_Flat ==
    [k \in Built_BASELOAD_GEN_TPS |->
        Enforce_Dispatch_Baseload_Flat_rule(BASELOAD_GEN_PERIODS_rule, k[1], k[2])]
Built_DispatchUpperLimit ==
    [k \in GEN_TPS |-> ExpressionOf(DispatchUpperLimit_expr(k[1], k[2]))]
Built_Enforce_Dispatch_Upper_Limit ==
    [k \in Enforce_Dispatch_Upper_Limit_index |->
        Enforce_Dispatch_Upper_Limit_rule(Built_DispatchUpperLimit, k[1], k[2])]
Built_GenFuelUseRate_Calculate ==
    [k \in FUEL_BASED_GEN_TPS |-> GenFuelUseRate_Calculate_rule(k[1], k[2])]
Built_ExcessGen ==
    [k \in NON_STORAGE_GEN_TPS |->
        ExpressionOf(ExcessGen_rule(Built_DispatchUpperLimit, k[1], k[2]))]
Built_ZoneTotalExcessGen ==
    [k \in ZONE_TIMEPOINTS |->
        ExpressionOf(ZoneTotalExcessGen_rule(Built_ExcessGen, k[1], k[2]))]
Built_AnnualExcessGen ==
    [k \in NON_STORAGE_GENS \X PERIODS |->
        ExpressionOf(Calculate_Annual_Excess_Energy_By_Gen(Built_ExcessGen, k[1], k[2]))]
Built_ExcessGenCostInTP ==
    [t \in TIMEPOINTS |-> ExpressionOf(ExcessGenCostInTP_rule(Built_ExcessGen, t))]
Built_max_AnnualExcessGen ==
    [k \in GENERATION_PROJECTS \X PERIODS |->
        max_AnnualExcessGen_rule(Built_AnnualExcessGen, k[1], k[2])]

\* the first component of the dispatch builder whose construction fails
NCFirstFailure ==
    IF ConstraintFails(Built_Enforce_Dispatch_Baseload_Flat)
    THEN "Enforce_Dispatch_Baseload_Flat"
    ELSE IF ExpressionFails(Built_DispatchUpperLimit) THEN "DispatchUpperLimit"
    ELSE IF ConstraintFails(Built_Enforce_Dispatch_Upper_Limit)
    THEN "Enforce_Dispatch_Upper_Limit"
    ELSE IF ConstraintFails(Built_GenFuelUseRate_Calculate)
    THEN "GenFuelUseRate_Calculate"
    ELSE IF ExpressionFails(Built_ExcessGen) THEN "ExcessGen"
    ELSE IF ExpressionFails(Built_ZoneTotalExcessGen) THEN "ZoneTotalExcessGen"
    ELSE IF ExpressionFails(Built_AnnualExcessGen) THEN "AnnualExcessGen"
    ELSE IF ExpressionFails(Built_ExcessGenCostInTP) THEN "ExcessGenCostInTP"
    ELSE IF ConstraintFails(Built_max_AnnualExcessGen) THEN "max_AnnualExcessGen"
    ELSE "none"

create_instance_no_commit ==
    /\ UNCHANGED drData
    /\ pc = "loaded"
    /\ IF NCFirstFailure # "none"
       THEN /\ pc' = "aborted"
            /\ error' = NCFirstFailure
            /\ instance' = Unbuilt
       ELSE /\ pc' = "constructed"
            /\ UNCHANGED error
            /\ instance' =
                 [BASELOAD_GEN_PERIODS |-> BASELOAD_GEN_PERIODS_rule,
                  BASELOAD_GEN_TPS |-> Built_BASELOAD_GEN_TPS,
                  Enforce_Dispatch_Baseload_Flat |->
                      Kept(Built_Enforce_Dispatch_Baseload_Flat),
                  DispatchUpperLimit |-> Built_DispatchUpperLimit,
                  Enforce_Dispatch_Upper_Limit |->
                      Kept(Built_Enforce_Dispatch_Upper_Limit),
                  GenFuelUseRate_Calculate |-> Kept(Built_GenFuelUseRate_Calculate),
                  ExcessGen |-> Built_ExcessGen,
                  ZoneTotalExcessGen |-> Built_ZoneTotalExcessGen,
                  AnnualExcessGen |-> Built_AnnualExcessGen,
                  ExcessGenCostInTP |-> Built_ExcessGenCostInTP,
                  max_AnnualExcessGen |-> Kept(Built_max_AnnualExcessGen)]
    /\ UNCHANGED <<Cost_Components_Per_TP, gen_info, tp_period, PERIODS_FOR_GEN,
                   solution>>

(***************************************************************************)
(* The solve of the dispatch variables: DispatchGen and GenFuelUseRate are *)
(* non-negative, DispatchBaseloadByPeriod is free.                         *)
(***************************************************************************)
DispatchKeys ==
    SetToSeq({DispatchBaseloadByPeriodKey(k[1], k[2]) : k \in instance.BASELOAD_GEN_PERIODS})
    \o SetToSeq({DispatchGenKey(k[1], k[2]) : k \in GEN_TPS})
    \o SetToSeq({GenFuelUseRateKey(k[1], k[2], k[3]) : k \in GEN_TP_FUELS})

DispatchCandidates(k) ==
    CASE k[1] = "DispatchGen" -> {v \in DispatchValues : NonNegativeReals(v)}
      [] k[1] = "DispatchBaseloadByPeriod" -> BaseloadLevelValues
      [] k[1] = "GenFuelUseRate" -> {v \in FuelRateValues : NonNegativeReals(v)}

DispatchConstraints ==
    Range(instance.Enforce_Dispatch_Baseload_Flat)
    \cup Range(instance.Enforce_Dispatch_Upper_Limit)
    \cup Range(instance.GenFuelUseRate_Calculate)
    \cup Range(instance.max_AnnualExcessGen)

solve_dispatch ==
    /\ UNCHANGED <<drData, error>>
    /\ pc = "constructed"
    /\ pc' = "solved"
    /\ solution' \in Solve(DispatchKeys,
                           [k \in Range(DispatchKeys) |-> DispatchCandidates(k)],
                           DispatchConstraints)
    /\ UNCHANGED <<Cost_Components_Per_TP, gen_info, tp_period, PERIODS_FOR_GEN,
                   instance>>

(***************************************************************************)
(* The dispatch pipeline.                                                  *)
(***************************************************************************)
InitDispatch ==
    /\ pc = "start"
    /\ error = "none"
    /\ has_local_td = FALSE
    /\ Distributed_Power_Withdrawals = <<>>
    /\ Zone_Power_Withdrawals = <<"zone_demand_mw">>
    /\ zone_demand_mw = [k \in ZONE_TIMEPOINTS |-> 2]
    /\ inputs_dir = [dr_data |-> NoFile, days |-> NoFile]
    /\ switch_data = EmptyData
    /\ tp_day = Unbuilt
    /\ TPS_IN_DAYS = Unbuilt
    /\ dr_shift_down_limit = Unbuilt
    /\ dr_shift_up_limit = Unbuilt
    /\ ShiftDemand_bounds = Unbuilt
    /\ DR_Shift_Net_Zero = Unbuilt
    /\ ShiftDemand = Unbuilt
    /\ Cost_Components_Per_TP = <<"GenVariableOMCostsInTP">>
    /\ gen_info = <<>>
    /\ tp_period = <<>>
    /\ PERIODS_FOR_GEN = <<>>
    /\ instance = Unbuilt
    /\ solution = Unbuilt

NextDispatch ==
    \/ define_components_no_commit
    \/ load_generation_inputs
    \/ create_instance_no_commit
    \/ solve_dispatch

SpecDispatch == InitDispatch /\ [][NextDispatch]_vars

(***************************************************************************)
(* Properties of the demand-shift builder.                                 *)
(***************************************************************************)
Built == pc \in {"constructed", "solved"}

\* the rows of the two input files, and the limits they and the defaults give
DaysRows == inputs_dir.days.rows
DrRowsLoaded == inputs_dir.dr_data.rows
LoadedDown(k) ==
    IF k \in DOMAIN DrRowsLoaded THEN DrRowsLoaded[k].dr_shift_down_limit ELSE 0
LoadedUp(k) ==
    IF k \in DOMAIN DrRowsLoaded THEN DrRowsLoaded[k].dr_shift_up_limit
    ELSE Infinity
TpsOfDay(d) == {t \in TIMEPOINTS : DaysRows[t] = d}

\* C1: once the demand-shift builder has run, every zone z and day d has an
\* equality constraint DR_Shift_Net_Zero[z,d] whose left side is the sum, with
\* coefficient 1, of ShiftDemand[z,t] over exactly the timepoints labelled d
\* and whose right side is 0; every solution sums to zero within each day.
C1_NetZeroPerDay ==
    Built =>
        \A z \in LOAD_ZONES, d \in DAYS :
            /\ <<z, d>> \in DOMAIN DR_Shift_Net_Zero
            /\ LET c == DR_Shift_Net_Zero[<<z, d>>]
               IN  /\ c.kind = "eq"
                   /\ c.rhs = Const(0)
                   /\ c.lhs.const = 0
                   /\ DOMAIN c.lhs.coef = {ShiftDemandKey(z, t) : t \in TpsOfDay(d)}
                   /\ \A k \in DOMAIN c.lhs.coef : c.lhs.coef[k] = 1
            /\ pc = "solved" =>
                   SumOver(TpsOfDay(d),
                           [t \in TpsOfDay(d) |-> ShiftDemand[<<z, t>>]]) = 0

\* a solution that shifts load between two timepoints of one day
C1_Witness ==
    /\ pc = "solved"
    /\ \E z \in LOAD_ZONES, t, u \in TIMEPOINTS :
        /\ DaysRows[t] = DaysRows[u]
        /\ ShiftDemand[<<z, t>>] > 0
        /\ ShiftDemand[<<z, u>>] < 0

\* C2: ShiftDemand[z,t] is bounded below by -dr_shift_down_limit[z,t] and
\* above by dr_shift_up_limit[z,t]; every solution lies within the two, an
\* infinite up limit being no upper bound.
C2_ShiftBounds ==
    Built =>
        \A k \in ZONE_TIMEPOINTS :
            /\ ShiftDemand_bounds[k] = <<0 - LoadedDown(k), LoadedUp(k)>>
            /\ dr_shift_down_limit[k] = LoadedDown(k)
            /\ dr_shift_up_limit[k] = LoadedUp(k)
            /\ pc = "solved" =>
                   /\ 0 - LoadedDown(k) <= ShiftDemand[k]
                   /\ LoadedUp(k) # Infinity => ShiftDemand[k] <= LoadedUp(k)

\* a solution at its lower bound at one timepoint, and positive at a
\* timepoint whose up limit is infinite
C2_Witness ==
    /\ pc = "solved"
    /\ \E k \in ZONE_TIMEPOINTS :
        LoadedDown(k) > 0 /\ ShiftDemand[k] = 0 - LoadedDown(k)
    /\ \E k \in ZONE_TIMEPOINTS :
        LoadedUp(k) = Infinity /\ ShiftDemand[k] > 0

\* a loaded shift-down limit that is negative or strictly above the demand
BadDownLimit ==
    \E k \in DOMAIN DrRowsLoaded :
        \/ DrRowsLoaded[k].dr_shift_down_limit < 0
        \/ DrRowsLoaded[k].dr_shift_down_limit > zone_demand_mw[k]

DRNothingBuilt ==
    /\ tp_day = <<>>
    /\ TPS_IN_DAYS = <<>>
    /\ dr_shift_down_limit = <<>>
    /\ dr_shift_up_limit = <<>>
    /\ ShiftDemand_bounds = <<>>
    /\ DR_Shift_Net_Zero = <<>>
    /\ ShiftDemand = <<>>

\* C3: a loaded dr_shift_down_limit that is negative or strictly greater
\* than the demand makes construction fail, with nothing built; the
\* parameter is rejected for no other value, so a value equal to the demand
\* is accepted.
C3_DownLimitValidated ==
    /\ Built => ~BadDownLimit
    /\ pc = "aborted" => DRNothingBuilt
    /\ (pc = "aborted" /\ error = "dr_shift_down_limit") => BadDownLimit
    /\ (pc = "aborted" /\ BadDownLimit) =>
           error \in {"days.csv", "tp_day", "TPS_IN_DAYS", "dr_shift_down_limit"}

\* construction aborted by a limit strictly above the demand
C3_Witness ==
    /\ pc = "aborted"
    /\ error = "dr_shift_down_limit"
    /\ \E k \in DOMAIN DrRowsLoaded :
        DrRowsLoaded[k].dr_shift_down_limit > zone_demand_mw[k]

\* a model built from a limit equal to the demand
C3_EqualAccepted ==
    /\ Built
    /\ \E k \in DOMAIN DrRowsLoaded :
        DrRowsLoaded[k].dr_shift_down_limit = zone_demand_mw[k]

\* C4: when dr_data.csv is omitted, its absence fails neither the load nor
\* the construction, every dr_shift_down_limit is 0 and every
\* dr_shift_up_limit is infinite, and every solution has ShiftDemand = 0.
C4_NoDrDataFile ==
    (pc \notin {"start", "defined"} /\ ~inputs_dir.dr_data.present) =>
        /\ pc = "aborted" =>
               error \notin {"dr_data.csv", "dr_shift_down_limit",
                             "dr_shift_up_limit"}
        /\ Built =>
               \A k \in ZONE_TIMEPOINTS :
                   /\ dr_shift_down_limit[k] = 0
                   /\ dr_shift_up_limit[k] = Infinity
                   /\ ShiftDemand_bounds[k] = <<0, Infinity>>
        /\ pc = "solved" => \A k \in ZONE_TIMEPOINTS : ShiftDemand[k] = 0

\* a solution of a model loaded without dr_data.csv
C4_Witness == pc = "solved" /\ ~inputs_dir.dr_data.present


(***************************************************************************)
(* Properties of the dispatch-limit builder.                               *)
(***************************************************************************)
\* the value a built expression takes under the solution
Value(e) == Eval(e, solution)
Dispatched(g, t) == solution[DispatchGenKey(g, t)]

\* the (project, timepoint) pairs at which a project operates, and the value
\* of its dispatch upper limit there, read off the inputs
ActiveTps ==
    {k \in GENERATION_PROJECTS \X TIMEPOINTS :
        tp_period[k[2]] \in PERIODS_FOR_GEN[k[1]]}
ActiveNonStorageTps == {k \in ActiveTps : ~gen_info[k[1]].gen_is_storage}
ActiveBaseloadTps == {k \in ActiveTps : gen_info[k[1]].gen_is_baseload}
LimitValue(g, t) ==
    IF gen_info[g].gen_is_variable
    THEN (gen_info[g].capacity * gen_info[g].gen_availability
              * gen_max_capacity_factor(g, t)) \div (Percent * Percent)
    ELSE (gen_info[g].capacity * gen_info[g].gen_availability) \div Percent

\* C5: the builder holds, for exactly the timepoints t of the periods in
\* which a baseload project g operates, the equality DispatchGen[g,t] =
\* DispatchBaseloadByPeriod[g, period of t], and none for another project;
\* in every solution the dispatch of a baseload project is the same at all
\* timepoints of one period.
C5_BaseloadFlat ==
    Built =>
        /\ DOMAIN instance.Enforce_Dispatch_Baseload_Flat = ActiveBaseloadTps
        /\ \A k \in ActiveBaseloadTps :
            instance.Enforce_Dispatch_Baseload_Flat[k] =
                [kind |-> "eq",
                 lhs |-> VarTerm(DispatchGenKey(k[1], k[2])),
                 rhs |-> VarTerm(DispatchBaseloadByPeriodKey(k[1], tp_period[k[2]]))]
        /\ pc = "solved" =>
               \A k \in ActiveBaseloadTps, u \in TIMEPOINTS :
                   tp_period[u] = tp_period[k[2]] =>
                       Dispatched(k[1], u) = Dispatched(k[1], k[2])

\* a baseload project running at one positive level over two timepoints of a
\* period, beside a project that is not baseload and varies within the period
C5_Witness ==
    /\ pc = "solved"
    /\ \E t, u \in TIMEPOINTS :
        /\ t # u
        /\ tp_period[t] = tp_period[u]
        /\ \E g \in GENERATION_PROJECTS :
            /\ <<g, t>> \in ActiveBaseloadTps
            /\ Dispatched(g, t) > 0
        /\ \E g \in GENERATION_PROJECTS :
            /\ <<g, t>> \in ActiveTps \ ActiveBaseloadTps
            /\ Dispatched(g, t) # Dispatched(g, u)

\* C6: DispatchUpperLimit is defined at every (g,t) of GEN_TPS and is the
\* number capacity * availability * capacity factor for a variable project
\* and capacity * availability for any other; 50 MW at availability 1.0 and
\* capacity factor 0.4 give 20 MW.
C6_UpperLimitValue ==
    Built =>
        /\ DOMAIN instance.DispatchUpperLimit = ActiveTps
        /\ \A k \in ActiveTps :
            LET limit == instance.DispatchUpperLimit[k]
                g == k[1]
            IN  /\ DOMAIN limit.coef = {}
                /\ limit.const = LimitValue(g, k[2])
                /\ (/\ gen_info[g].gen_is_variable
                    /\ gen_info[g].capacity = 5000
                    /\ gen_info[g].gen_availability = 100
                    /\ gen_max_capacity_factor(g, k[2]) = 40) => limit.const = 2000

\* the 50 MW project of the example, beside a project that is not variable
\* and is limited to 95 MW by its availability alone
C6_Witness ==
    /\ Built
    /\ \E k \in ActiveTps :
        /\ gen_info[k[1]].gen_is_variable
        /\ gen_info[k[1]].capacity = 5000
        /\ gen_max_capacity_factor(k[1], k[2]) = 40
        /\ instance.DispatchUpperLimit[k].const = 2000
    /\ \E k \in ActiveTps :
        /\ ~gen_info[k[1]].gen_is_variable
        /\ instance.DispatchUpperLimit[k].const = 9500


C8_LowerAndUpperLimits ==
    pc = "solved" =>
        \A k \in ActiveTps :
            LET DispatchLowerLimit ==
                    IF gen_info[k[1]].gen_is_baseload
                    THEN LimitValue(k[1], k[2]) ELSE 0
            IN  /\ DispatchLowerLimit <= Dispatched(k[1], k[2])
                /\ Dispatched(k[1], k[2]) <= LimitValue(k[1], k[2])

\* C9: ExcessGen is defined at exactly the (g,t) of the projects that are not
\* storage; for a variable project it is DispatchUpperLimit[g,t] -
\* DispatchGen[g,t], for any other the number 0 whatever the dispatch; an
\* upper limit of 20 MW and a dispatch of 12 MW give 8 MW.
C9_ExcessGenValue ==
    Built =>
        /\ DOMAIN instance.ExcessGen = ActiveNonStorageTps
        /\ \A k \in ActiveNonStorageTps :
            LET excess == instance.ExcessGen[k]
                key == DispatchGenKey(k[1], k[2])
            IN  /\ gen_info[k[1]].gen_is_variable =>
                       /\ DOMAIN excess.coef = {key}
                       /\ excess.coef[key] = -1
                       /\ excess.const = LimitValue(k[1], k[2])
                /\ ~gen_info[k[1]].gen_is_variable =>
                       /\ DOMAIN excess.coef = {}
                       /\ excess.const = 0
                /\ pc = "solved" =>
                       /\ Value(excess) =
                              IF gen_info[k[1]].gen_is_variable
                              THEN LimitValue(k[1], k[2]) - solution[key]
                              ELSE 0
                       /\ (/\ gen_info[k[1]].gen_is_variable
                           /\ LimitValue(k[1], k[2]) = 2000
                           /\ solution[key] = 1200) => Value(excess) = 800

\* the example, beside a project that is not variable and dispatches
C9_Witness ==
    /\ pc = "solved"
    /\ \E k \in ActiveNonStorageTps :
        /\ gen_info[k[1]].gen_is_variable
        /\ LimitValue(k[1], k[2]) = 2000
        /\ Dispatched(k[1], k[2]) = 1200
        /\ Value(instance.ExcessGen[k]) = 800
    /\ \E k \in ActiveNonStorageTps :
        /\ ~gen_info[k[1]].gen_is_variable
        /\ Dispatched(k[1], k[2]) > 0
        /\ Value(instance.ExcessGen[k]) = 0

\* C10: in every solution of the constraints built, ExcessGen[g,t] >= 0
\* wherever ExcessGen is defined.
C10_ExcessGenNonNegative ==
    pc = "solved" =>
        \A k \in DOMAIN instance.ExcessGen : Value(instance.ExcessGen[k]) >= 0

\* a variable project dispatched at its upper limit: its excess is 0, and at
\* another timepoint its excess is positive
C10_Witness ==
    /\ pc = "solved"
    /\ \E k \in DOMAIN instance.ExcessGen :
        /\ gen_info[k[1]].gen_is_variable
        /\ Dispatched(k[1], k[2]) > 0
        /\ Value(instance.ExcessGen[k]) = 0
    /\ \E k \in DOMAIN instance.ExcessGen : Value(instance.ExcessGen[k]) > 0


\* the constraint the annual cap gives for project g in period p
AnnualCapOf(g, p) ==
    [kind |-> "le",
     lhs |-> instance.AnnualExcessGen[<<g, p>>],
     rhs |-> [coef |-> NoTerms,
              const |-> gen_excess_max(g)
                            * (IF p \in PERIODS_FOR_GEN[g]
                               THEN gen_info[g].capacity ELSE 0),
              native |-> FALSE, raised |-> FALSE]]

\* C11: once the components have been constructed, every project g with a
\* finite gen_excess_max has in every period p the constraint
\* AnnualExcessGen[g,p] <= gen_excess_max[g] * GenCapacity[g,p] in the
\* model, and a project with an infinite gen_excess_max has none.
C11_AnnualCapAdded ==
    pc \in {"aborted", "constructed", "solved"} =>
        \A g \in GENERATION_PROJECTS, p \in PERIODS :
            IF IsInf(gen_excess_max(g))
            THEN Built => <<g, p>> \notin DOMAIN instance.max_AnnualExcessGen
            ELSE /\ Built
                 /\ <<g, p>> \in DOMAIN instance.max_AnnualExcessGen
                 /\ instance.max_AnnualExcessGen[<<g, p>>] = AnnualCapOf(g, p)


(***************************************************************************)
(* Further properties of the demand-shift builder.                         *)
(***************************************************************************)
\* whether the lists of timepoints per day partition the timepoints by label
PartitionsByDay(lists) ==
    /\ DOMAIN lists = DAYS
    /\ \A d \in DAYS :
        /\ Range(lists[d]) = TpsOfDay(d)
        /\ \A i, j \in DOMAIN lists[d] : i < j => lists[d][i] < lists[d][j]
    /\ \A t \in TIMEPOINTS :
        Cardinality({d \in DAYS : t \in Range(lists[d])}) = 1
    /\ \A d, e \in DAYS : d # e => Range(lists[d]) \cap Range(lists[e]) = {}

\* the labels loaded give every timepoint a day of DAYS
LabelsValid ==
    /\ pc = "loaded"
    /\ tp_day_within(switch_data.tp_day)
    /\ tp_day_defined(switch_data.tp_day)

\* C12: TPS_IN_DAYS[d] lists, in the order of TIMEPOINTS and without
\* repetition, exactly the timepoints labelled d; every timepoint is in the
\* list of exactly one day and the lists of two days share no timepoint.
\* This holds of the set a built model has, and of the set computed from any
\* valid labels, a day without timepoints included.
C12_TpsInDaysPartition ==
    /\ Built => PartitionsByDay(TPS_IN_DAYS)
    /\ LabelsValid =>
           PartitionsByDay([d \in DAYS |-> TPS_IN_DAYS_init(switch_data.tp_day, d)])

\* a built model with a day of several timepoints that are not adjacent, and
\* another day between them
C12_Witness ==
    /\ Built
    /\ \E d, e \in DAYS :
        /\ d # e
        /\ Len(TPS_IN_DAYS[d]) >= 2
        /\ Len(TPS_IN_DAYS[e]) >= 1
        /\ TPS_IN_DAYS[d][1] < TPS_IN_DAYS[e][1]
        /\ TPS_IN_DAYS[e][1] < TPS_IN_DAYS[d][2]


\* days.csv is missing, leaves a timepoint without a label, or labels one
\* with a day outside DAYS
DaysMissing == ~inputs_dir.days.present
LabelOutsideDays ==
    /\ inputs_dir.days.present
    /\ \E t \in DOMAIN DaysRows : DaysRows[t] \notin DAYS
LabelMissing ==
    /\ inputs_dir.days.present
    /\ \E t \in TIMEPOINTS : t \notin DOMAIN DaysRows
BadDays == DaysMissing \/ LabelOutsideDays \/ LabelMissing

\* C13: with days.csv missing the load fails; with a label outside DAYS or a
\* timepoint without a label the construction that follows the load fails;
\* in each case no model is built and no component of the builder is left.
C13_DayLabelsRequired ==
    /\ [](pc \notin {"start", "defined"} =>
            /\ DaysMissing => (pc = "aborted" /\ error = "days.csv")
            /\ BadDays => ~Built
            /\ (BadDays /\ pc = "aborted") =>
                   /\ DRNothingBuilt
                   /\ LabelOutsideDays => error = "tp_day"
                   /\ (LabelMissing /\ ~LabelOutsideDays) => error = "TPS_IN_DAYS")
    /\ [][(pc = "loaded" /\ BadDays) => pc' = "aborted"]_vars

\* construction aborted by the label that follows the last day
C13_Witness ==
    /\ pc = "aborted"
    /\ error = "tp_day"
    /\ \E t \in DOMAIN DaysRows : DaysRows[t] = NumDays + 1
    /\ DRNothingBuilt


\* the number of times x is in the list
Count(list, x) == Cardinality({i \in DOMAIN list : list[i] = x})

\* C14: once the builder has declared its components, "ShiftDemand" is in
\* exactly one of the two accumulators, once: in
\* Distributed_Power_Withdrawals when the model has it, else in
\* Zone_Power_Withdrawals.  The step that registers it appends it to that
\* list and changes nothing else in either list, and no later step changes
\* the lists.
C14_WithdrawalRegistered ==
    /\ [](/\ pc = "start" =>
               /\ Count(Distributed_Power_Withdrawals, "ShiftDemand") = 0
               /\ Count(Zone_Power_Withdrawals, "ShiftDemand") = 0
          /\ pc # "start" =>
               /\ Count(Distributed_Power_Withdrawals, "ShiftDemand") =
                      (IF has_local_td THEN 1 ELSE 0)
               /\ Count(Zone_Power_Withdrawals, "ShiftDemand") =
                      (IF has_local_td THEN 0 ELSE 1))
    /\ [][/\ Distributed_Power_Withdrawals' =
                 (IF pc = "start" /\ has_local_td
                  THEN Distributed_Power_Withdrawals \o <<"ShiftDemand">>
                  ELSE Distributed_Power_Withdrawals)
          /\ Zone_Power_Withdrawals' =
                 (IF pc = "start" /\ ~has_local_td
                  THEN Zone_Power_Withdrawals \o <<"ShiftDemand">>
                  ELSE Zone_Power_Withdrawals)]_vars

\* registered with the distributed node, after the entry it already held,
\* the zonal accumulator being as it was
C14_Witness ==
    /\ pc = "defined"
    /\ has_local_td
    /\ Distributed_Power_Withdrawals = <<"zone_demand_mw", "ShiftDemand">>
    /\ Zone_Power_Withdrawals = <<"WithdrawFromCentralGrid">>


(***************************************************************************)
(* Further properties of the dispatch-limit builder.                       *)
(***************************************************************************)
ActiveFuelBasedTps == {k \in ActiveTps : gen_info[k[1]].fuels # {}}
FuelUsed(g, t, f) == solution[GenFuelUseRateKey(g, t, f)]

\* C15: the builder holds one equality for each (g,t) of a project that
\* burns fuel, and for no other: the sum, with coefficient 1, of
\* GenFuelUseRate[g,t,f] over the fuels f of g equals DispatchGen[g,t] times
\* the heat rate of g.  Every solution satisfies it, whatever the split
\* among the fuels.
C15_FuelUseRate ==
    Built =>
        /\ DOMAIN instance.GenFuelUseRate_Calculate = ActiveFuelBasedTps
        /\ \A k \in ActiveFuelBasedTps :
            LET g == k[1]
                t == k[2]
                c == instance.GenFuelUseRate_Calculate[k]
            IN  /\ c.kind = "eq"
                /\ DOMAIN c.lhs.coef =
                       {GenFuelUseRateKey(g, t, f) : f \in gen_info[g].fuels}
                /\ \A x \in DOMAIN c.lhs.coef : c.lhs.coef[x] = 1
                /\ c.lhs.const = 0
                /\ DOMAIN c.rhs.coef = {DispatchGenKey(g, t)}
                /\ c.rhs.coef[DispatchGenKey(g, t)] =
                       gen_info[g].gen_full_load_heat_rate
                /\ c.rhs.const = 0
                /\ pc = "solved" =>
                       SumOver(gen_info[g].fuels,
                               [f \in gen_info[g].fuels |-> FuelUsed(g, t, f)])
                           = Dispatched(g, t) * gen_info[g].gen_full_load_heat_rate

\* a project with two fuels that dispatches the same power at two
\* timepoints, on one fuel at the first and on the other at the second
C15_Witness ==
    /\ pc = "solved"
    /\ \E g \in GENERATION_PROJECTS, t, u \in TIMEPOINTS :
        /\ <<g, t>> \in ActiveFuelBasedTps
        /\ <<g, u>> \in ActiveFuelBasedTps
        /\ gen_info[g].fuels = {"gas", "oil"}
        /\ Dispatched(g, t) > 0
        /\ Dispatched(g, t) = Dispatched(g, u)
        /\ FuelUsed(g, t, "gas") > 0 /\ FuelUsed(g, t, "oil") = 0
        /\ FuelUsed(g, u, "oil") > 0 /\ FuelUsed(g, u, "gas") = 0


(***************************************************************************)
(* Feasibility and coupling of the demand-shift constraints.               *)
(***************************************************************************)
NoShift == [k \in ShiftDemandKeys |-> 0]

\* C16: in every model built, ShiftDemand = 0 everywhere lies within the
\* bounds of every variable and satisfies every DR_Shift_Net_Zero
\* constraint, and the solve has it among its solutions.
C16_NoShiftFeasible ==
    Built =>
        /\ \A k \in ZONE_TIMEPOINTS :
            /\ ShiftDemand_bounds[k][1] <= 0
            /\ IsInf(ShiftDemand_bounds[k][2]) \/ 0 <= ShiftDemand_bounds[k][2]
        /\ \A k \in DOMAIN DR_Shift_Net_Zero :
            Eval(DR_Shift_Net_Zero[k].lhs, NoShift)
                = Eval(DR_Shift_Net_Zero[k].rhs, NoShift)
        /\ NoShift \in
               Solve(SetToSeq(ShiftDemandKeys),
                     [k \in ShiftDemandKeys |->
                         {v \in ShiftValues :
                             WithinBounds(v, ShiftDemand_bounds[<<k[2], k[3]>>])}],
                     Range(DR_Shift_Net_Zero))

\* a model whose limits leave no other solution: an up limit of 0 everywhere
\* with a positive down limit
C16_Witness ==
    /\ pc = "solved"
    /\ \A k \in ZONE_TIMEPOINTS :
        /\ ShiftDemand_bounds[k] = <<-1, 0>>
        /\ ShiftDemand[k] = 0


\* the projects that are not storage and operate in the period of t
NonStorageGensAt(t) == {g \in GENERATION_PROJECTS : <<g, t>> \in ActiveNonStorageTps}

\* C17: ExcessGenCostInTP[t] is, for every timepoint t, the sum of
\* ExcessGen[g,t] * ppa_energy_cost[g] over exactly the projects that are
\* not storage and operate in the period of t, as an expression of the
\* dispatch and in value under every solution; the name "ExcessGenCostInTP"
\* is in Cost_Components_Per_TP once, after the entries the list had, from
\* the moment the components are declared.
C17_ExcessGenCost ==
    /\ Count(Cost_Components_Per_TP, "ExcessGenCostInTP") =
           (IF pc = "start" THEN 0 ELSE 1)
    /\ pc # "start" =>
           Cost_Components_Per_TP = <<"GenVariableOMCostsInTP", "ExcessGenCostInTP">>
    /\ Built =>
        /\ DOMAIN instance.ExcessGenCostInTP = TIMEPOINTS
        /\ \A t \in TIMEPOINTS :
            LET cost == instance.ExcessGenCostInTP[t]
                priced == {g \in NonStorageGensAt(t) : gen_info[g].gen_is_variable}
            IN  /\ DOMAIN cost.coef \subseteq
                       {DispatchGenKey(g, t) : g \in NonStorageGensAt(t)}
                /\ \A g \in NonStorageGensAt(t) :
                       CoefOf(cost, DispatchGenKey(g, t)) =
                           (IF g \in priced
                            THEN 0 - gen_info[g].ppa_energy_cost ELSE 0)
                /\ cost.const =
                       SumOver(priced,
                               [g \in priced |->
                                   LimitValue(g, t) * gen_info[g].ppa_energy_cost])
                /\ pc = "solved" =>
                       Value(cost) =
                           SumOver(NonStorageGensAt(t),
                                   [g \in NonStorageGensAt(t) |->
                                       Value(instance.ExcessGen[<<g, t>>])
                                           * gen_info[g].ppa_energy_cost])

\* 8 MW of excess priced at 30 beside a storage project that dispatches and
\* adds nothing to the cost
C17_Witness ==
    /\ pc = "solved"
    /\ \E t \in TIMEPOINTS :
        /\ Value(instance.ExcessGenCostInTP[t]) = 800 * 30
        /\ \E g \in GENERATION_PROJECTS :
            /\ <<g, t>> \in ActiveTps \ ActiveNonStorageTps
            /\ Dispatched(g, t) > 0


\* the parts of a linear expression of the dispatch: its constant and its
\* coefficient of each DispatchGen variable
ExprParts == {<<"const">>} \cup {DispatchGenKey(k[1], k[2]) : k \in ActiveTps}
PartOf(e, part) == IF part = <<"const">> THEN e.const ELSE CoefOf(e, part)
OnlyDispatchTerms(e) == DOMAIN e.coef \subseteq ExprParts

NonStorageGensOfZoneAt(z, t) ==
    {g \in NonStorageGensAt(t) : gen_info[g].gen_load_zone = z}
NonStorageProjects == {g \in GENERATION_PROJECTS : ~gen_info[g].gen_is_storage}
TpsOfPeriod(p) == {t \in TIMEPOINTS : tp_period[t] = p}

\* C18: in every model built, ZoneTotalExcessGen[z,t] is the sum of
\* ExcessGen[g,t] over the projects of zone z that are not storage and
\* operate at t, AnnualExcessGen[g,p] is the sum, each term counted once,
\* of ExcessGen[g,t] over the timepoints of p, and for every period the sum
\* of AnnualExcessGen over the projects equals the sum of ZoneTotalExcessGen
\* over the zones and the timepoints of the period: as expressions of the
\* dispatch, part by part, and so in value under every solution.
C18_ExcessAggregates ==
    Built =>
        /\ DOMAIN instance.ZoneTotalExcessGen = ZONE_TIMEPOINTS
        /\ DOMAIN instance.AnnualExcessGen =
               NonStorageProjects \X Range(tp_period)
        /\ \A k \in ZONE_TIMEPOINTS : OnlyDispatchTerms(instance.ZoneTotalExcessGen[k])
        /\ \A k \in DOMAIN instance.AnnualExcessGen :
               OnlyDispatchTerms(instance.AnnualExcessGen[k])
        /\ \A part \in ExprParts :
            /\ \A k \in ZONE_TIMEPOINTS :
                LET gens == NonStorageGensOfZoneAt(k[1], k[2])
                IN  PartOf(instance.ZoneTotalExcessGen[k], part) =
                        SumOver(gens, [g \in gens |->
                            PartOf(instance.ExcessGen[<<g, k[2]>>], part)])
            /\ \A k \in DOMAIN instance.AnnualExcessGen :
                LET tps == TpsOfPeriod(k[2])
                IN  PartOf(instance.AnnualExcessGen[k], part) =
                        SumOver(tps, [t \in tps |->
                            PartOf(instance.ExcessGen[<<k[1], t>>], part)])
            /\ \A p \in Range(tp_period) :
                LET cells == LOAD_ZONES \X TpsOfPeriod(p)
                IN  SumOver(NonStorageProjects, [g \in NonStorageProjects |->
                        PartOf(instance.AnnualExcessGen[<<g, p>>], part)])
                    = SumOver(cells, [c \in cells |->
                        PartOf(instance.ZoneTotalExcessGen[c], part)])
        /\ pc = "solved" =>
            \A p \in Range(tp_period) :
                LET cells == LOAD_ZONES \X TpsOfPeriod(p)
                IN  SumOver(NonStorageProjects, [g \in NonStorageProjects |->
                        Value(instance.AnnualExcessGen[<<g, p>>])])
                    = SumOver(cells, [c \in cells |->
                        Value(instance.ZoneTotalExcessGen[c])])

\* a period of two timepoints or more in which both zones have excess and
\* one project has excess at two timepoints
C18_Witness ==
    /\ pc = "solved"
    /\ \E p \in Range(tp_period) :
        /\ Cardinality(TpsOfPeriod(p)) >= 2
        /\ \A z \in LOAD_ZONES : \E t \in TpsOfPeriod(p) :
               Value(instance.ZoneTotalExcessGen[<<z, t>>]) > 0
        /\ \E g \in NonStorageProjects, t, u \in TpsOfPeriod(p) :
            /\ t # u
            /\ Value(instance.ExcessGen[<<g, t>>]) > 0
            /\ Value(instance.ExcessGen[<<g, u>>]) > 0
            /\ Value(instance.AnnualExcessGen[<<g, p>>]) >=
                   Value(instance.ExcessGen[<<g, t>>])
                       + Value(instance.ExcessGen[<<g, u>>])


\* C19: in every solution, a baseload project that is not storage runs in
\* each period at one level, the value of DispatchBaseloadByPeriod, that is
\* at most its upper limit at every timepoint of the period, the smallest
\* one included; 100 MW at availability 0.95 over three timepoints give one
\* level of at most 95 MW.
C19_BaseloadLevelBelowLimits ==
    pc = "solved" =>
        \A k \in ActiveBaseloadTps \cap ActiveNonStorageTps :
            LET g == k[1]
                p == tp_period[k[2]]
                level == solution[DispatchBaseloadByPeriodKey(g, p)]
            IN  /\ Dispatched(g, k[2]) = level
                /\ \A u \in TpsOfPeriod(p) : level <= LimitValue(g, u)
                /\ (/\ gen_info[g].capacity = 10000
                    /\ gen_info[g].gen_availability = 95) => level <= 9500

\* a period of three timepoints in which the project of the example runs at
\* 95 MW, beside a baseload project whose limit varies and which runs below
\* the smallest of its limits, 38 MW
C19_Witness ==
    /\ pc = "solved"
    /\ \E p \in Range(tp_period) :
        /\ Cardinality(TpsOfPeriod(p)) = 3
        /\ \E g \in GENERATION_PROJECTS :
            /\ gen_info[g].gen_is_baseload /\ ~gen_info[g].gen_is_variable
            /\ \A t \in TpsOfPeriod(p) :
                   <<g, t>> \in ActiveTps /\ Dispatched(g, t) = 9500
        /\ \E g \in GENERATION_PROJECTS :
            /\ gen_info[g].gen_is_baseload /\ gen_info[g].gen_is_variable
            /\ \E t, u \in TpsOfPeriod(p) :
                /\ LimitValue(g, t) = 9500
                /\ LimitValue(g, u) = 3800
            /\ \A t \in TpsOfPeriod(p) :
                   <<g, t>> \in ActiveTps /\ Dispatched(g, t) = 1200


\* the solutions of the model built, and the ShiftDemand variables of one
\* zone and day
ShiftSolutions ==
    Solve(SetToSeq(ShiftDemandKeys),
          [k \in ShiftDemandKeys |->
              {v \in ShiftValues :
                  WithinBounds(v, ShiftDemand_bounds[<<k[2], k[3]>>])}],
          Range(DR_Shift_Net_Zero))
BlockKeys(z, d) == {ShiftDemandKey(z, t) : t \in TpsOfDay(d)}

\* C20: in every model built, each ShiftDemand[z,t] is in exactly one
\* DR_Shift_Net_Zero constraint, that of (z, tp_day[t]), whose variables
\* are all of zone z and day d; and the solutions of one zone and day do not
\* depend on the others: taking the values of one solution for a zone and
\* day and those of another solution everywhere else gives a solution (the
\* solutions are those of the model as constructed, before the solve).
C20_NoCrossCoupling ==
    Built =>
        /\ \A k \in ZONE_TIMEPOINTS :
            {c \in DOMAIN DR_Shift_Net_Zero :
                 ShiftDemandKey(k[1], k[2])
                     \in ConstraintVars(DR_Shift_Net_Zero[c])}
                = {<<k[1], DaysRows[k[2]]>>}
        /\ \A c \in DOMAIN DR_Shift_Net_Zero :
            ConstraintVars(DR_Shift_Net_Zero[c]) \subseteq BlockKeys(c[1], c[2])
        /\ pc = "constructed" =>
            \A solutions \in {ShiftSolutions} :
                \A a, b \in solutions, z \in LOAD_ZONES, d \in DAYS :
                    [k \in ShiftDemandKeys |->
                        IF k \in BlockKeys(z, d) THEN a[k] ELSE b[k]] \in solutions

\* one zone shifts load within a day while the other zone, free to do the
\* same, does not
C20_Witness ==
    /\ pc = "solved"
    /\ \E d \in DAYS, t, u \in TIMEPOINTS :
        /\ DaysRows[t] = d /\ DaysRows[u] = d
        /\ ShiftDemand[<<"z1", t>>] > 0
        /\ ShiftDemand[<<"z1", u>>] < 0
        /\ LoadedDown(<<"z2", t>>) > 0 /\ LoadedDown(<<"z2", u>>) > 0
        /\ \A v \in TIMEPOINTS : ShiftDemand[<<"z2", v>>] = 0


(***************************************************************************)
(* Reach of the shift limits.                                              *)
(***************************************************************************)
Positive(x) == IF x > 0 THEN x ELSE 0
ShiftedUp(z, d) ==
    SumOver(TpsOfDay(d), [t \in TpsOfDay(d) |-> Positive(ShiftDemand[<<z, t>>])])
ShiftedDown(z, d) ==
    SumOver(TpsOfDay(d), [t \in TpsOfDay(d) |-> Positive(0 - ShiftDemand[<<z, t>>])])
DownLimitOfDay(z, d) ==
    SumOver(TpsOfDay(d), [t \in TpsOfDay(d) |-> dr_shift_down_limit[<<z, t>>]])

\* C21: in every solution, for every zone and day, the load shifted up
\* equals the load shifted down and is at most the sum of the day's
\* dr_shift_down_limit; a timepoint has a positive shift only if some
\* timepoint of its zone and day has a down limit above 0.
C21_UpShiftWithinDownLimits ==
    pc = "solved" =>
        \A z \in LOAD_ZONES, d \in DAYS :
            /\ ShiftedUp(z, d) = ShiftedDown(z, d)
            /\ ShiftedUp(z, d) <= DownLimitOfDay(z, d)
            /\ (\E t \in TpsOfDay(d) : ShiftDemand[<<z, t>>] > 0) =>
                   \E u \in TpsOfDay(d) : dr_shift_down_limit[<<z, u>>] > 0

\* a day whose only down limit is used in full by a shift up at another
\* timepoint, whose own down limit is 0
C21_Witness ==
    /\ pc = "solved"
    /\ \E z \in LOAD_ZONES, d \in DAYS, t \in TIMEPOINTS :
        /\ DaysRows[t] = d
        /\ ShiftDemand[<<z, t>>] > 0
        /\ dr_shift_down_limit[<<z, t>>] = 0
        /\ ShiftedUp(z, d) = DownLimitOfDay(z, d)


(***************************************************************************)
(* Shifted load.                                                           *)
(***************************************************************************)
ShiftedLoad(k) == zone_demand_mw[k] + ShiftDemand[k]

\* C22: in every solution the shifted load zone_demand_mw[z,t] +
\* ShiftDemand[z,t] of every zone and timepoint is at least 0.
C22_ShiftedLoadNonNegative ==
    pc = "solved" => \A k \in ZONE_TIMEPOINTS : ShiftedLoad(k) >= 0

\* a positive demand shifted away entirely, under a down limit equal to it
C22_Witness ==
    /\ pc = "solved"
    /\ \E k \in ZONE_TIMEPOINTS :
        /\ zone_demand_mw[k] > 0
        /\ dr_shift_down_limit[k] = zone_demand_mw[k]
        /\ ShiftedLoad(k) = 0


(***************************************************************************)
(* Days without timepoints.                                                *)
(***************************************************************************)
EmptyDays == {d \in DAYS : TpsOfDay(d) = {}}
InputsValid ==
    /\ ~BadDays
    /\ dr_shift_down_limit_ok(switch_data.dr_shift_down_limit)
    /\ dr_shift_up_limit_ok(switch_data.dr_shift_up_limit)

\* C23: with valid inputs in which some day of DAYS has no timepoint, the
\* construction does not fail: the model is built and holds the constraint
\* DR_Shift_Net_Zero[z,d] of every zone z and every day d that has timepoints.
C23_EmptyDayBuilds ==
    (/\ pc \in {"constructed", "solved", "aborted"}
     /\ InputsValid
     /\ EmptyDays # {}) =>
        /\ Built
        /\ \A z \in LOAD_ZONES, d \in DAYS \ EmptyDays :
               <<z, d>> \in DOMAIN DR_Shift_Net_Zero


(***************************************************************************)
(* Definedness of the annual excess generation and of its cap.             *)
(***************************************************************************)
Constructing == pc \in {"aborted", "constructed", "solved"}

\* C24: AnnualExcessGen[g,p] is defined for every non-storage project g and
\* every period p: its rule raises nothing, the expression is constructed,
\* and it is 0 when g is not active in p.
C24_AnnualExcessGenDefined ==
    Constructing =>
        /\ error # "AnnualExcessGen"
        /\ \A g \in NON_STORAGE_GENS, p \in PERIODS :
            LET e == Calculate_Annual_Excess_Energy_By_Gen(Built_ExcessGen, g, p)
            IN  /\ ~e.raised
                /\ p \notin PERIODS_FOR_GEN[g] => (e.coef = NoTerms /\ e.const = 0)


\* the pairs for which the annual-cap rule builds a relation
CappedPairs == {k \in GENERATION_PROJECTS \X PERIODS : ~IsInf(gen_excess_max(k[1]))}

\* C25: for every project g with a finite gen_excess_max and every period p
\* the terms of the annual-cap rule are defined, AnnualExcessGen[g,p] and
\* GenCapacity[g,p] alike, and the construction does not fail in
\* max_AnnualExcessGen, also for a storage project and for a project that is
\* not active in p.
C25_AnnualCapTermsDefined ==
    Constructing =>
        /\ error # "max_AnnualExcessGen"
        /\ \A k \in CappedPairs :
            /\ ~Lookup(Built_AnnualExcessGen, k).raised
            /\ ~GenCapacity(k[1], k[2]).raised
            /\ ~RuleResultRejected(
                   max_AnnualExcessGen_rule(Built_AnnualExcessGen, k[1], k[2]))

=============================================================================
